---- MODULE Spec2Model ----
(***************************************************************************)
(* A model of the Markdown -> DOCX renderer of main.py:                    *)
(*   render_tokens_to_docx  (the block renderer, one action per branch of  *)
(*                           its main loop),                               *)
(*   _render_inline / _render_emphasis_runs (the inline renderer),         *)
(*   latex_to_omml_or_image (the three-tier math transcoder, one action    *)
(*                           per stage).                                   *)
(* Text is a sequence of one-character strings; a cursor is 0-based as in  *)
(* the source, so the token under cursor k is tokens[k + 1].               *)
(***************************************************************************)
EXTENDS Integers, Sequences, FiniteSets, TLC

VARIABLES
    tokens,      \* the token stream handed to render_tokens_to_docx
    images_map,  \* the ids the caller supplied images for
    i,           \* the cursor of the main loop
    list_stack,  \* sequence of <<kind, level>>
    in_table,    \* BOOLEAN
    table,       \* 0 (None) or the index in doc of the current table
    doc,         \* the document body: paragraphs and tables, in order
    pc,          \* position: "loop", "inline", a transcoder stage, "done", "error"
    jobs,        \* _render_inline calls the current handler still has to make
    parts,       \* parts of the current _render_inline call still to render
    target,      \* the paragraph the current _render_inline call writes to
    raising,     \* the handler raises IndexError once its jobs are done
    frame,       \* locals of the running latex_to_omml_or_image call
    figs         \* pyplot's open figures, the current figure last

vars == <<tokens, images_map, i, list_stack, in_table, table, doc, pc, jobs,
          parts, target, raising, frame, figs>>

-----------------------------------------------------------------------------
(* Bounds of the input space.                                              *)

MaxLists == 3
MaxRows == 2
MaxCols == 4
MaxCode == 3
MaxQuote == 2

-----------------------------------------------------------------------------
(* Text helpers (Python str operations on sequences of characters).        *)

Max(a, b) == IF a >= b THEN a ELSE b

Min(a, b) == IF a <= b THEN a ELSE b

Slice(s, a, b) == IF a > b THEN <<>> ELSE SubSeq(s, a, b)

RECURSIVE Concat(_)
Concat(ss) == IF ss = <<>> THEN <<>> ELSE Head(ss) \o Concat(Tail(ss))

\* s[p..] starts with pat (positions are 1-based)
MatchAt(s, p, pat) ==
    /\ p >= 1
    /\ p + Len(pat) - 1 <= Len(s)
    /\ SubSeq(s, p, p + Len(pat) - 1) = pat

StartsWith(s, pat) == MatchAt(s, 1, pat)

EndsWith(s, pat) == MatchAt(s, Len(s) - Len(pat) + 1, pat)

\* the first position >= from where pat occurs in s, 0 when there is none
Find(s, pat, from) ==
    LET hits == {p \in Max(from, 1)..Len(s) : MatchAt(s, p, pat)}
    IN  IF hits = {} THEN 0 ELSE CHOOSE p \in hits : \A q \in hits : p <= q

Contains(s, pat) == Find(s, pat, 1) # 0

Whitespace == {" ", "\n", "\r", "\t"}

\* str.strip()
Strip(s) ==
    LET keep == {p \in 1..Len(s) : s[p] \notin Whitespace}
    IN  IF keep = {} THEN <<>>
        ELSE SubSeq(s, CHOOSE p \in keep : \A q \in keep : p <= q,
                       CHOOSE p \in keep : \A q \in keep : p >= q)

\* str.splitlines(), for the line breaks "\n", "\r" and "\r\n"
RECURSIVE SplitLinesFrom(_, _, _)
SplitLinesFrom(s, p, cur) ==
    IF p > Len(s) THEN (IF cur = <<>> THEN <<>> ELSE <<cur>>)
    ELSE IF s[p] = "\r" /\ p < Len(s) /\ s[p + 1] = "\n"
         THEN <<cur>> \o SplitLinesFrom(s, p + 2, <<>>)
    ELSE IF s[p] \in {"\n", "\r"}
         THEN <<cur>> \o SplitLinesFrom(s, p + 1, <<>>)
    ELSE SplitLinesFrom(s, p + 1, Append(cur, s[p]))

SplitLines(s) == SplitLinesFrom(s, 1, <<>>)

-----------------------------------------------------------------------------
(* Document content.  A paragraph holds a sequence of elements: runs,      *)
(* hyperlinks and math.  The colour every run is given                     *)
(* (set_default_font_black) is the same for all and is left out.           *)

Run(text, style) == [kind |-> "run", text |-> text, style |-> style, aux |-> <<>>]

Hyperlink(text, url) == [kind |-> "hyperlink", text |-> text, style |-> "link", aux |-> url]

Omml(core, wrapped) ==
    [kind |-> "omml", text |-> core,
     style |-> IF wrapped THEN "oMathPara" ELSE "asis", aux |-> <<>>]

\* the run latex_to_omml_or_image adds for its picture; pic is <<>> until
\* add_picture has put the rendered bytes in
PictureRun(pic) == [kind |-> "run", text |-> <<>>, style |-> "picture", aux |-> pic]

Paragraph(style, indent, runs, src) ==
    [kind |-> "p", style |-> style, indent |-> indent, runs |-> runs,
     src |-> src, cols |-> 0, rows |-> <<>>]

Table(cols, rows, src) ==
    [kind |-> "table", style |-> "table", indent |-> 0, runs |-> <<>>,
     src |-> src, cols |-> cols, rows |-> rows]

-----------------------------------------------------------------------------
(* MATH_INLINE_SPLIT_RE = (\$\$.*?\$\$|\$.*?\$), DOTALL, and re.split.     *)

DD == <<"$", "$">>

\* the last position of the match that starts at p, 0 when none starts there
MathMatchEnd(s, p) ==
    IF MatchAt(s, p, DD) /\ Find(s, DD, p + 2) # 0
    THEN Find(s, DD, p + 2) + 1
    ELSE IF MatchAt(s, p, <<"$">>) /\ Find(s, <<"$">>, p + 1) # 0
    THEN Find(s, <<"$">>, p + 1)
    ELSE 0

RECURSIVE SplitFrom(_, _, _)
SplitFrom(s, p, last) ==
    IF p > Len(s) THEN <<Slice(s, last, Len(s))>>
    ELSE LET e == MathMatchEnd(s, p)
         IN  IF e # 0
             THEN <<Slice(s, last, p - 1), Slice(s, p, e)>> \o SplitFrom(s, e + 1, e + 1)
             ELSE SplitFrom(s, p + 1, last)

\* MATH_INLINE_SPLIT_RE.split(text)
MathSplit(text) == SplitFrom(text, 1, 1)

IsBlockMath(part) == StartsWith(part, DD) /\ EndsWith(part, DD)

IsInlineMath(part) ==
    StartsWith(part, <<"$">>) /\ EndsWith(part, <<"$">>) /\ Len(part) >= 2

IsMath(part) == IsBlockMath(part) \/ IsInlineMath(part)

\* the delimiter stripping at the head of latex_to_omml_or_image
StripDelims(latex_src) ==
    IF StartsWith(latex_src, DD) /\ EndsWith(latex_src, DD) /\ Len(latex_src) >= 4
    THEN Strip(Slice(latex_src, 3, Len(latex_src) - 2))
    ELSE IF StartsWith(latex_src, <<"$">>) /\ EndsWith(latex_src, <<"$">>)
            /\ Len(latex_src) >= 2
    THEN Strip(Slice(latex_src, 2, Len(latex_src) - 1))
    ELSE Strip(latex_src)

\* render_tex of the image fallback
RenderTex(core) ==
    IF StartsWith(core, <<"$">>) /\ EndsWith(core, <<"$">>)
    THEN core ELSE <<"$">> \o core \o <<"$">>

-----------------------------------------------------------------------------
(* token_re of _render_emphasis_runs: seven alternatives, tried in order   *)
(* at each position, leftmost match first, every quantifier lazy.          *)

NoMatch == [end |-> 0, el |-> Run(<<>>, "plain")]

\* the image alternative puts "[alt]" in a plain run (the id is not looked up)
ImageElement(alt, id) == Run(<<"[">> \o alt \o <<"]">>, "plain")

LinkElement(txt, url) == Hyperlink(txt, url)

\* open .*? mid .*? close   (image and link)
TwoPart(s, p, open, image) ==
    LET a == p + Len(open)
        j == Find(s, <<"]", "(">>, a)
        k == IF j = 0 THEN 0 ELSE Find(s, <<")">>, j + 2)
        first == Slice(s, a, j - 1)
        second == Slice(s, j + 2, k - 1)
    IN  IF MatchAt(s, p, open) /\ j # 0 /\ k # 0
        THEN [end |-> k,
              el |-> IF image THEN ImageElement(first, second)
                              ELSE LinkElement(first, second)]
        ELSE NoMatch

\* delim .+? delim   (bold+italic, bold, italic, strike)
Delimited(s, p, delim, style) ==
    LET a == p + Len(delim)
        q == Find(s, delim, a + 1)
    IN  IF MatchAt(s, p, delim) /\ q # 0
        THEN [end |-> q + Len(delim) - 1, el |-> Run(Slice(s, a, q - 1), style)]
        ELSE NoMatch

\* the backquote character, which a TLA+ string cannot hold
Backquote == "BACKQUOTE"

\* backquote, one or more characters other than a backquote, backquote
CodeSpan(s, p) ==
    LET q == Find(s, <<Backquote>>, p + 1)
    IN  IF MatchAt(s, p, <<Backquote>>) /\ q >= p + 2
        THEN [end |-> q, el |-> Run(Slice(s, p + 1, q - 1), "code")]
        ELSE NoMatch

FirstMatch(ms) ==
    LET hit == {n \in 1..Len(ms) : ms[n].end # 0}
    IN  IF hit = {} THEN NoMatch
        ELSE ms[CHOOSE n \in hit : \A m \in hit : n <= m]

TokenMatch(s, p) ==
    FirstMatch(<< TwoPart(s, p, <<"!", "[">>, TRUE),
                  TwoPart(s, p, <<"[">>, FALSE),
                  CodeSpan(s, p),
                  Delimited(s, p, <<"*", "*", "*">>, "bold_italic"),
                  Delimited(s, p, <<"*", "*">>, "bold"),
                  Delimited(s, p, <<"*">>, "italic"),
                  Delimited(s, p, <<"~", "~">>, "strike") >>)

RECURSIVE EmphasisFrom(_, _, _)
EmphasisFrom(txt, p, pos) ==
    IF p > Len(txt)
    THEN (IF pos <= Len(txt) THEN <<Run(Slice(txt, pos, Len(txt)), "plain")>> ELSE <<>>)
    ELSE LET m == TokenMatch(txt, p)
         IN  IF m.end # 0
             THEN (IF p > pos THEN <<Run(Slice(txt, pos, p - 1), "plain")>> ELSE <<>>)
                  \o <<m.el>> \o EmphasisFrom(txt, m.end + 1, m.end + 1)
             ELSE EmphasisFrom(txt, p + 1, pos)

\* the elements _render_emphasis_runs(paragraph, txt) appends
EmphasisRuns(txt) == EmphasisFrom(txt, 1, 1)

-----------------------------------------------------------------------------
(* Tokens (markdown-it Token: type, content, tag).                         *)

Tk(type) == [type |-> type, content |-> <<>>, tag |-> <<>>]

InlineTk(c) == [type |-> "inline", content |-> c, tag |-> <<>>]

FenceTk(c) == [type |-> "fence", content |-> c, tag |-> <<"c", "o", "d", "e">>]

HeadingTk(type, n) == [type |-> type, content |-> <<>>, tag |-> <<"h", n>>]

NEW_PAGE_MARKER ==
    <<"[", "N", "U", "E", "V", "A", " ", "P", "A_ACUTE", "G", "I", "N", "A", "]">>

\* tokens[k], for a 0-based k
Tok(k) == tokens[k + 1]

TypeAt(k) == tokens[k + 1].type

\* i < len(tokens) and tokens[i].type == "inline"
HasInline(k) == k < Len(tokens) /\ TypeAt(k) = "inline"

-----------------------------------------------------------------------------
(* The state of one render_tokens_to_docx call.                            *)

\* a pending _render_inline call: on a paragraph still to be added to the
\* document (make), or on one that exists (tgt = <<block, row, column>>)
Job(make, tgt, content) == [make |-> make, tgt |-> tgt, content |-> content]

NoTarget == <<0, 0, 0>>

NoFrame ==
    [src |-> <<>>, as_block |-> FALSE, core |-> <<>>, fig |-> 0, buf |-> <<>>,
     base |-> 0, tier1 |-> "none", tier2 |-> "none"]

\* the paragraph content a target names
ContentOf(d, tgt) ==
    IF tgt[2] = 0 THEN d[tgt[1]].runs ELSE d[tgt[1]].rows[tgt[2]][tgt[3]]

\* the document with els appended to the target paragraph
AddTo(d, tgt, els) ==
    IF tgt[2] = 0
    THEN [d EXCEPT ![tgt[1]].runs = @ \o els]
    ELSE [d EXCEPT ![tgt[1]].rows[tgt[2]][tgt[3]] = @ \o els]

\* open_list
OpenList(st, typ, level) == Append(st, <<typ, level>>)

\* close_list without its pop
CloseListNoPop(st) == st

\* close_list
CloseList(st) == IF st # <<>> THEN SubSeq(st, 1, Len(st) - 1) ELSE st

Unit == 3  \* Inches(0.3), in tenths of an inch

MaxHeadingStyle == 5

RuleLen == 60

HeadingStyle(level) ==
    <<"Heading 0", "Heading 1", "Heading 2", "Heading 3", "Heading 4",
      "Heading 5">>[Min(level, MaxHeadingStyle) + 1]

DigitVal(c) ==
    CASE c = "0" -> 0 [] c = "1" -> 1 [] c = "2" -> 2 [] c = "3" -> 3
      [] c = "4" -> 4 [] c = "5" -> 5 [] c = "6" -> 6 [] c = "7" -> 7
      [] c = "8" -> 8 [] c = "9" -> 9

\* int(t.tag[-1]) if t.tag.startswith("h") else 1
HeadingLevel(tag) ==
    IF StartsWith(tag, <<"h">>) THEN DigitVal(tag[Len(tag)]) ELSE 1

-----------------------------------------------------------------------------
(* Scans a handler of the main loop makes with the cursor.                 *)

\* the row loop `while tokens[i].type != "tr_close"` of the thead and tr
\* branches, from cursor k; err when it reads tokens[i] past the end
RECURSIVE ParseCells(_, _, _)
ParseCells(k, cells, open) ==
    IF k >= Len(tokens) THEN [i |-> k, cells |-> cells, err |-> TRUE]
    ELSE IF TypeAt(k) = "tr_close" THEN [i |-> k, cells |-> cells, err |-> FALSE]
    ELSE IF TypeAt(k) = open
         THEN IF k + 1 >= Len(tokens)
              THEN [i |-> k + 1, cells |-> cells, err |-> TRUE]
              ELSE IF TypeAt(k + 1) = "inline"
                   THEN ParseCells(k + 3, Append(cells, Tok(k + 1).content), open)
                   ELSE ParseCells(k + 2, Append(cells, <<>>), open)
    ELSE ParseCells(k + 1, cells, open)

\* the loop of the thead branch up to thead_close
RECURSIVE HeadScan(_, _)
HeadScan(k, rows) ==
    IF k >= Len(tokens) \/ TypeAt(k) = "thead_close"
    THEN [i |-> k, rows |-> rows, err |-> FALSE]
    ELSE IF TypeAt(k) = "tr_open"
         THEN LET r == ParseCells(k + 1, <<>>, "th_open")
              IN  IF r.err THEN [i |-> r.i, rows |-> rows, err |-> TRUE]
                  ELSE HeadScan(r.i + 1, Append(rows, r.cells))
    ELSE HeadScan(k + 1, rows)

\* the loop of the blockquote branch up to the first blockquote_close: the
\* paragraphs it adds, each with the inline content rendered into it
RECURSIVE QuoteScan(_, _)
QuoteScan(k, js) ==
    IF k >= Len(tokens) \/ TypeAt(k) = "blockquote_close"
    THEN [i |-> k, jobs |-> js]
    ELSE IF TypeAt(k) = "paragraph_open"
         THEN LET p == Paragraph("Normal", Unit, <<>>, k)
              IN  IF HasInline(k + 1)
                  THEN QuoteScan(k + 3, Append(js, Job(<<p>>, NoTarget, Tok(k + 1).content)))
                  ELSE QuoteScan(k + 2, Append(js, Job(<<p>>, NoTarget, <<>>)))
    ELSE QuoteScan(k + 1, js)

RECURSIVE MaxLen(_)
MaxLen(rows) == IF rows = <<>> THEN 0 ELSE Max(Len(Head(rows)), MaxLen(Tail(rows)))

\* a table row of python-docx: one empty cell per column
EmptyRow(cols) == [c \in 1..cols |-> <<>>]

-----------------------------------------------------------------------------
(* render_tokens_to_docx: one action per branch of the main loop.          *)

AtLoop(type) == pc = "loop" /\ i < Len(tokens) /\ TypeAt(i) = type

\* a branch ends: the cursor moves, the document grows, and the
\* _render_inline calls the branch makes are run before the next iteration
Continue(ni, ndoc, njobs) ==
    /\ i' = ni
    /\ doc' = ndoc
    /\ jobs' = njobs
    /\ pc' = IF njobs = <<>> THEN "loop" ELSE "inline"
    /\ UNCHANGED <<tokens, images_map, parts, target, raising, frame, figs>>

\* tokens[i] is read with i >= len(tokens): IndexError leaves the function
RaiseIndexError ==
    /\ pc' = "error"
    /\ UNCHANGED <<tokens, images_map, i, list_stack, in_table, table, doc, jobs,
                   parts, target, raising, frame, figs>>

\* i += 1; an inline token, if one follows, is rendered into paragraph b;
\* then the close token is stepped over
InlineJobs(k, b) ==
    IF HasInline(k) THEN <<Job(<<>>, <<b, 0, 0>>, Tok(k).content)>> ELSE <<>>

AfterInline(k) == IF HasInline(k) THEN k + 2 ELSE k + 1

HeadingOpen ==
    /\ AtLoop("heading_open")
    /\ LET level == HeadingLevel(Tok(i).tag)
           p == Paragraph(HeadingStyle(level), 0, <<>>, i)
       IN  Continue(AfterInline(i + 1), Append(doc, p), InlineJobs(i + 1, Len(doc) + 1))
    /\ UNCHANGED <<list_stack, in_table, table>>

\* the page-break test of the paragraph branch
IsPageBreak(k) ==
    /\ k + 1 < Len(tokens)
    /\ TypeAt(k + 1) = "inline"
    /\ Contains(Strip(Tok(k + 1).content), NEW_PAGE_MARKER)

\* add_page_break: two paragraphs added while building a discarded list of
\* runs (the second with an empty run), then a paragraph with the break
PageBreakBlocks(k) ==
    << Paragraph("Normal", 0, <<>>, k),
       Paragraph("Normal", 0, <<Run(<<>>, "plain")>>, k),
       Paragraph("Normal", 0, <<Run(<<>>, "page_break")>>, k) >>

ParagraphPageBreak ==
    /\ AtLoop("paragraph_open")
    /\ IsPageBreak(i)
    /\ Continue(i + 3, doc \o PageBreakBlocks(i), <<>>)
    /\ UNCHANGED <<list_stack, in_table, table>>

ParagraphOpen ==
    /\ AtLoop("paragraph_open")
    /\ ~IsPageBreak(i)
    /\ Continue(AfterInline(i + 1), Append(doc, Paragraph("Normal", 0, <<>>, i)),
                InlineJobs(i + 1, Len(doc) + 1))
    /\ UNCHANGED <<list_stack, in_table, table>>

BlockquoteOpen ==
    /\ AtLoop("blockquote_open")
    /\ LET r == QuoteScan(i + 1, <<>>)
       IN  Continue(r.i + 1, Append(doc, Paragraph("Normal", Unit, <<>>, i)), r.jobs)
    /\ UNCHANGED <<list_stack, in_table, table>>

ListOpen ==
    /\ pc = "loop" /\ i < Len(tokens)
    /\ TypeAt(i) \in {"bullet_list_open", "ordered_list_open"}
    /\ LET list_type == IF TypeAt(i) = "bullet_list_open" THEN "bullet" ELSE "ordered"
           level == Len(list_stack) + 1
       IN  list_stack' = OpenList(list_stack, list_type, level)
    /\ Continue(i + 1, doc, <<>>)
    /\ UNCHANGED <<in_table, table>>

ListClose ==
    /\ pc = "loop" /\ i < Len(tokens)
    /\ TypeAt(i) \in {"bullet_list_close", "ordered_list_close"}
    /\ list_stack' = CloseList(list_stack)
    /\ Continue(i + 1, doc, <<>>)
    /\ UNCHANGED <<in_table, table>>

\* the cursor after the contents of a list item opened at k: the item's
\* first paragraph, if it starts with one, and then one more token, taken
\* to be list_item_close
\* the list_item_open branch without any of its `i += 1`
AfterItemNoAdvance(k) == k

AfterItem(k) ==
    IF k + 1 < Len(tokens) /\ TypeAt(k + 1) = "paragraph_open"
    THEN AfterInline(k + 2) + 1
    ELSE k + 2

ListItemOpen ==
    /\ AtLoop("list_item_open")
    /\ LET list_depth == Len(list_stack)
           style == IF list_stack # <<>> /\ list_stack[Len(list_stack)][1] = "ordered"
                    THEN "List Number" ELSE "List Bullet"
           indent == IF list_depth > 1 THEN Unit * (list_depth - 1) ELSE 0
           js == IF i + 1 < Len(tokens) /\ TypeAt(i + 1) = "paragraph_open"
                 THEN InlineJobs(i + 2, Len(doc) + 1) ELSE <<>>
       IN  Continue(AfterItem(i), Append(doc, Paragraph(style, indent, <<>>, i)), js)
    /\ UNCHANGED <<list_stack, in_table, table>>

\* the paragraphs of the code branch: one before the loop, and one more
\* after each line's run
CodeBlocks(code, k) ==
    LET lines == SplitLines(code)
    IN  [n \in 1..Len(lines) + 1 |->
            Paragraph("Code", 0,
                      IF n <= Len(lines) THEN <<Run(lines[n], "code")>> ELSE <<>>, k)]

CodeBlock ==
    /\ pc = "loop" /\ i < Len(tokens)
    /\ TypeAt(i) \in {"fence", "code_block"}
    /\ Continue(i + 1, doc \o CodeBlocks(Tok(i).content, i), <<>>)
    /\ UNCHANGED <<list_stack, in_table, table>>

Hr ==
    /\ AtLoop("hr")
    /\ Continue(i + 1,
                Append(doc, Paragraph("Normal", 0,
                                      <<Run([n \in 1..RuleLen |-> "_"], "plain")>>, i)),
                <<>>)
    /\ UNCHANGED <<list_stack, in_table, table>>

TableOpen ==
    /\ AtLoop("table_open")
    /\ in_table' = TRUE
    /\ table' = 0
    /\ Continue(i + 1, doc, <<>>)
    /\ UNCHANGED list_stack

\* the header row of the new table: the texts of header_rows[0], bold
HeaderRow(cols, header_rows) ==
    [c \in 1..cols |->
        IF header_rows # <<>> /\ c <= Len(header_rows[1])
        THEN <<Run(header_rows[1][c], "bold")>> ELSE <<>>]

TheadOpen ==
    /\ AtLoop("thead_open")
    /\ LET r == HeadScan(i + 1, <<>>)
           cols == IF r.rows # <<>> THEN MaxLen(r.rows) ELSE 1
       IN  /\ ~r.err
           /\ table' = Len(doc) + 1
           /\ Continue(r.i + 1,
                       Append(doc, Table(cols, <<HeaderRow(cols, r.rows)>>, i)), <<>>)
    /\ UNCHANGED <<list_stack, in_table>>

TheadOpenRaise ==
    /\ AtLoop("thead_open")
    /\ HeadScan(i + 1, <<>>).err
    /\ RaiseIndexError

TbodyOpen ==
    /\ AtLoop("tbody_open")
    /\ Continue(i + 1, doc, <<>>)
    /\ UNCHANGED <<list_stack, in_table, table>>

\* the cells of a body row that get rendered: row[idx] exists for idx < cols
CellJobs(b, row, cells, cols) ==
    [c \in 1..Min(Len(cells), cols) |-> Job(<<>>, <<b, row, c>>, cells[c])]

TrOpen ==
    /\ AtLoop("tr_open")
    /\ in_table
    /\ LET r == ParseCells(i + 1, <<>>, "td_open")
           b == IF table = 0 THEN Len(doc) + 1 ELSE table
           d1 == IF table = 0 THEN Append(doc, Table(Len(r.cells), <<>>, i)) ELSE doc
           cols == d1[b].cols
           d2 == [d1 EXCEPT ![b].rows = Append(@, EmptyRow(cols))]
           js == CellJobs(b, Len(d2[b].rows), r.cells, cols)
           wide == Len(r.cells) > cols
       IN  /\ ~r.err
           /\ table' = b
           /\ doc' = d2
           /\ jobs' = js
           /\ raising' = wide
           /\ i' = IF wide THEN i ELSE r.i + 1
           /\ pc' = IF js # <<>> THEN "inline" ELSE IF wide THEN "error" ELSE "loop"
    /\ UNCHANGED <<tokens, images_map, list_stack, in_table, parts, target, frame, figs>>

TrOpenRaise ==
    /\ AtLoop("tr_open")
    /\ in_table
    /\ ParseCells(i + 1, <<>>, "td_open").err
    /\ RaiseIndexError

TbodyClose ==
    /\ AtLoop("tbody_close")
    /\ Continue(i + 1, doc, <<>>)
    /\ UNCHANGED <<list_stack, in_table, table>>

TableClose ==
    /\ AtLoop("table_close")
    /\ in_table' = FALSE
    /\ table' = 0
    /\ Continue(i + 1, doc, <<>>)
    /\ UNCHANGED list_stack

HandledTypes ==
    {"heading_open", "paragraph_open", "blockquote_open", "bullet_list_open",
     "ordered_list_open", "bullet_list_close", "ordered_list_close",
     "list_item_open", "fence", "code_block", "hr", "table_open", "thead_open",
     "tbody_open", "tbody_close", "table_close"}

DefaultAdvance ==
    /\ pc = "loop" /\ i < Len(tokens)
    /\ TypeAt(i) \notin HandledTypes
    /\ ~(TypeAt(i) = "tr_open" /\ in_table)
    /\ Continue(i + 1, doc, <<>>)
    /\ UNCHANGED <<list_stack, in_table, table>>

\* the loop condition fails: render_tokens_to_docx returns
Return ==
    /\ pc = "loop" /\ i >= Len(tokens)
    /\ pc' = "done"
    /\ UNCHANGED <<tokens, images_map, i, list_stack, in_table, table, doc, jobs,
                   parts, target, raising, frame, figs>>

-----------------------------------------------------------------------------
(* _render_inline: the parts of MATH_INLINE_SPLIT_RE.split(text), in       *)
(* order; empty parts are skipped.                                         *)

NonEmpty(ss) == SelectSeq(ss, LAMBDA x : x # <<>>)

\* _render_inline is entered: text = inline_token.content or ""
InlineStart ==
    /\ pc = "inline" /\ parts = <<>> /\ jobs # <<>>
    /\ LET job == Head(jobs)
       IN  /\ doc' = IF job.make # <<>> THEN Append(doc, job.make[1]) ELSE doc
           /\ target' = IF job.make # <<>> THEN <<Len(doc) + 1, 0, 0>> ELSE job.tgt
           /\ parts' = IF job.content = <<>> THEN <<>>
                       ELSE NonEmpty(MathSplit(job.content))
    /\ jobs' = Tail(jobs)
    /\ UNCHANGED <<tokens, images_map, i, list_stack, in_table, table, pc, raising,
                   frame, figs>>

\* a part that is not math goes to _render_emphasis_runs
InlineText ==
    /\ pc = "inline" /\ parts # <<>>
    /\ ~IsMath(Head(parts))
    /\ doc' = AddTo(doc, target, EmphasisRuns(Head(parts)))
    /\ parts' = Tail(parts)
    /\ UNCHANGED <<tokens, images_map, i, list_stack, in_table, table, pc, jobs,
                   target, raising, frame, figs>>

\* a math part: latex_to_omml_or_image is called on the current paragraph
\* (for $$...$$ too: the element the branch adds beside the paragraph's
\* parent lies outside the parent's content and is not part of doc)
InlineMath ==
    /\ pc = "inline" /\ parts # <<>>
    /\ IsMath(Head(parts))
    /\ frame' = [NoFrame EXCEPT !.src = Head(parts),
                                !.as_block = IsBlockMath(Head(parts)),
                                !.core = StripDelims(Head(parts)),
                                !.base = Len(ContentOf(doc, target))]
    /\ parts' = Tail(parts)
    /\ pc' = "m_parse"
    /\ UNCHANGED <<tokens, images_map, i, list_stack, in_table, table, doc, jobs,
                   target, raising, figs>>

\* the handler's last _render_inline call has returned
InlineDone ==
    /\ pc = "inline" /\ parts = <<>> /\ jobs = <<>>
    /\ pc' = IF raising THEN "error" ELSE "loop"
    /\ UNCHANGED <<tokens, images_map, i, list_stack, in_table, table, doc, jobs,
                   parts, target, raising, frame, figs>>

-----------------------------------------------------------------------------
(* latex_to_omml_or_image: one action per stage.  What a library call      *)
(* does with a given source is not in this repository: each stage either   *)
(* succeeds or raises.                                                     *)

MathStep(npc, ndoc, nframe, nfigs) ==
    /\ pc' = npc
    /\ doc' = ndoc
    /\ frame' = nframe
    /\ figs' = nfigs
    /\ UNCHANGED <<tokens, images_map, i, list_stack, in_table, table, jobs, parts,
                   target, raising>>

\* `except Exception: pass` of the first try: on to the image fallback
NativeFailed == MathStep("m_figure", doc, [frame EXCEPT !.tier1 = "failed"], figs)

\* the first try without its `return`: control falls into the image fallback
AfterNativeNoReturn == "m_figure"

\* the `return` that ends the first try
AfterNative == "m_return"

\* `except Exception` of the second try: on to the plain text
ImageFailed == MathStep("m_plain", doc, [frame EXCEPT !.tier2 = "failed"], figs)

\* mathml = latex_to_mathml(core)
MathParse ==
    /\ pc = "m_parse"
    /\ \/ MathStep("m_omml", doc, frame, figs)
       \/ NativeFailed

\* omml_xml = mathml2omml(mathml)
MathOmml ==
    /\ pc = "m_omml"
    /\ \/ MathStep("m_attach", doc, frame, figs)
       \/ NativeFailed

\* append_omml: parse the OMML, wrap a bare oMath in oMathPara, append it
MathAttach ==
    /\ pc = "m_attach"
    /\ \/ \E wrapped \in BOOLEAN :
            MathStep(AfterNative, AddTo(doc, target, <<Omml(frame.core, wrapped)>>),
                     [frame EXCEPT !.tier1 = "ok"], figs)
       \/ NativeFailed

NextFigNum == IF figs = <<>> THEN 1 ELSE figs[Len(figs)].num + 1

\* fig = plt.figure(): a new figure, now pyplot's current one
MathFigure ==
    /\ pc = "m_figure"
    /\ \/ MathStep("m_draw", doc, [frame EXCEPT !.fig = NextFigNum],
                   Append(figs, [num |-> NextFigNum, text |-> <<>>]))
       \/ ImageFailed

\* ax = fig.add_subplot(111); ax.axis("off"); ax.text(0.5, 0.5, render_tex)
MathDraw ==
    /\ pc = "m_draw"
    /\ \/ MathStep("m_save", doc, frame,
                   [n \in 1..Len(figs) |->
                       IF figs[n].num = frame.fig
                       THEN [figs[n] EXCEPT !.text = RenderTex(frame.core)]
                       ELSE figs[n]])
       \/ ImageFailed

\* plt.savefig(buf): pyplot saves its current figure
MathSave ==
    /\ pc = "m_save"
    /\ \/ MathStep("m_close", doc, [frame EXCEPT !.buf = figs[Len(figs)].text], figs)
       \/ ImageFailed

\* plt.close(fig)
MathClose ==
    /\ pc = "m_close"
    /\ \/ MathStep("m_run", doc, frame,
                   SelectSeq(figs, LAMBDA f : f.num # frame.fig))
       \/ ImageFailed

\* run = paragraph.add_run()
MathAddRun ==
    /\ pc = "m_run"
    /\ MathStep("m_picture", AddTo(doc, target, <<PictureRun(<<>>)>>), frame, figs)

\* the target paragraph's content with its last element replaced
WithLast(d, tgt, el) ==
    LET n == Len(ContentOf(d, tgt))
    IN  IF tgt[2] = 0
        THEN [d EXCEPT ![tgt[1]].runs[n] = el]
        ELSE [d EXCEPT ![tgt[1]].rows[tgt[2]][tgt[3]][n] = el]

\* run.add_picture(buf, width=Inches(5.5))
MathPicture ==
    /\ pc = "m_picture"
    /\ \/ MathStep("m_return", WithLast(doc, target, PictureRun(frame.buf)),
                   [frame EXCEPT !.tier2 = "ok"], figs)
       \/ ImageFailed

\* paragraph.add_run(core)
MathPlain ==
    /\ pc = "m_plain"
    /\ MathStep("m_return", AddTo(doc, target, <<Run(frame.core, "plain")>>), frame, figs)

\* latex_to_omml_or_image returns to _render_inline
MathReturn ==
    /\ pc = "m_return"
    /\ MathStep("inline", doc, NoFrame, figs)

-----------------------------------------------------------------------------
(* The inputs: the token streams md.parse hands to the renderer (and, for  *)
(* streams that are not well nested, any list of tokens a caller may       *)
(* pass).  Each family exercises one construct up to its bound.            *)

A == <<"a">>

\* \$5 is not math\$
SampleEscaped ==
    <<"\\", "$", "5", " ", "i", "s", " ", "n", "o", "t", " ", "m", "a", "t",
      "h", "\\", "$">>

\* before ![x](imgid) after
SampleImage ==
    <<"b", "e", "f", "o", "r", "e", " ", "!", "[", "x", "]", "(", "i", "m",
      "g", "i", "d", ")", " ", "a", "f", "t", "e", "r">>

\* **b** *i* ~~s~~ (backquote)c(backquote)
SampleEmphasis ==
    <<"*", "*", "b", "*", "*", " ", "*", "i", "*", " ", "~", "~", "s", "~",
      "~", " ", Backquote, "c", Backquote>>

\* see [t](u)
SampleLink ==
    <<"s", "e", "e", " ", "[", "t", "]", "(", "u", ")">>

\* the marker between spaces
SampleMarkerPadded ==
    <<" ", "[", "N", "U", "E", "V", "A", " ", "P", "A_ACUTE", "G", "I", "N",
      "A", "]", " ">>

\* the marker among other text
SampleMarkerAmid ==
    <<"i", "n", "t", "r", "o", " ", "[", "N", "U", "E", "V", "A", " ", "P",
      "A_ACUTE", "G", "I", "N", "A", "]", " ", "o", "u", "t", "r", "o">>

\* a $$x$$
SampleBlockMath ==
    <<"a", " ", "$", "$", "x", "$", "$">>

\* cost $5
SampleUnterminated ==
    <<"c", "o", "s", "t", " ", "$", "5">>

InlineSamples ==
    {SampleEscaped, SampleImage, SampleEmphasis, SampleLink, NEW_PAGE_MARKER,
     SampleMarkerPadded, SampleMarkerAmid, SampleBlockMath, SampleUnterminated}

MaxInline == 3

\* every text of at most MaxInline characters over a, $ and backslash
ShortTexts ==
    UNION {[1..n -> {"a", "$", "\\"}] : n \in 0..MaxInline}

\* every code text of at most MaxCode characters over a and the line break
CodeTexts ==
    UNION {[1..n -> {"a", "\n"}] : n \in 0..MaxCode}

Para(c) == <<Tk("paragraph_open"), InlineTk(c), Tk("paragraph_close")>>

Heading(n, c) ==
    <<HeadingTk("heading_open", n), InlineTk(c), HeadingTk("heading_close", n)>>

Quote(body) == <<Tk("blockquote_open")>> \o body \o <<Tk("blockquote_close")>>

ListOf(kind, items) ==
    <<Tk(IF kind = "bullet" THEN "bullet_list_open" ELSE "ordered_list_open")>>
    \o items
    \o <<Tk(IF kind = "bullet" THEN "bullet_list_close" ELSE "ordered_list_close")>>

\* a list item: its paragraph, then what it holds besides
Item(c, sub) ==
    <<Tk("list_item_open")>> \o Para(c) \o sub \o <<Tk("list_item_close")>>

\* the lists made of exactly n lists, one or two items each, a nested list
\* being the last thing in its item; in a loose stream a second paragraph
\* precedes the nested list
RECURSIVE ListTrees(_, _)
ListTrees(n, loose) ==
    LET ItemWith(m) ==
            IF m = 0 THEN {Item(A, <<>>)}
            ELSE {Item(A, (IF loose THEN Para(A) ELSE <<>>) \o t) : t \in ListTrees(m, loose)}
        ItemsWith(m) ==
            ItemWith(m)
            \cup UNION {{x \o y : x \in ItemWith(a), y \in ItemWith(m - a)} : a \in 0..m}
    IN  IF n = 0 THEN {}
        ELSE {ListOf(k, its) : k \in {"bullet", "ordered"}, its \in ItemsWith(n - 1)}

ListStreams ==
    UNION {{t \o Para(A) : t \in ListTrees(n, loose)} :
             n \in 1..MaxLists, loose \in BOOLEAN}

\* blockquotes nested up to depth d, with paragraphs before and after what
\* they hold, which is nothing, a one-item list or a nested blockquote
RECURSIVE QuoteTrees(_)
QuoteTrees(d) ==
    IF d = 0 THEN {}
    ELSE {Quote(pre \o inner \o post) :
            pre \in {<<>>, Para(A)}, post \in {<<>>, Para(A)},
            inner \in {<<>>} \cup ListTrees(1, FALSE) \cup QuoteTrees(d - 1)}

QuoteStreams ==
    {q \o Para(A) : q \in QuoteTrees(MaxQuote)}
    \cup {ListOf(k, Item(A, q)) \o Para(A) : k \in {"bullet", "ordered"}, q \in QuoteTrees(1)}

Cell(open, close, c) == <<Tk(open), InlineTk(c), Tk(close)>>

Row(open, close, w) ==
    <<Tk("tr_open")>> \o Concat([n \in 1..w |-> Cell(open, close, A)]) \o <<Tk("tr_close")>>

\* a table with no header and one body cell, of the given content
OneCellTable(c) ==
    <<Tk("table_open"), Tk("tbody_open"), Tk("tr_open")>> \o Cell("td_open", "td_close", c)
    \o <<Tk("tr_close"), Tk("tbody_close"), Tk("table_close")>>

\* a table with a header of h cells (no thead when h = 0) and a body row
\* of ws[n] cells for each n
TableStream(h, ws) ==
    <<Tk("table_open")>>
    \o (IF h = 0 THEN <<>>
        ELSE <<Tk("thead_open")>> \o Row("th_open", "th_close", h) \o <<Tk("thead_close")>>)
    \o <<Tk("tbody_open")>>
    \o Concat([n \in 1..Len(ws) |-> Row("td_open", "td_close", ws[n])])
    \o <<Tk("tbody_close"), Tk("table_close")>>

TableStreams ==
    {TableStream(h, ws) :
        h \in 0..MaxCols, ws \in UNION {[1..n -> 1..MaxCols] : n \in 0..MaxRows}}

TextStreams ==
    {Para(c) : c \in InlineSamples \cup ShortTexts}
    \cup {Heading(n, c) : n \in {"1", "6"}, c \in {A, <<"$", "a", "$">>}}
    \cup {<<Tk("hr")>> \o Para(NEW_PAGE_MARKER) \o Para(A)}
    \cup {Quote(Para(<<"$", "a", "$">>))}
    \cup {TableStream(1, << 1 >>) \o Para(A), OneCellTable(<<"$", "a", "$">>)}

CodeStreams ==
    {<<FenceTk(c)>> : c \in CodeTexts}
    \cup {<<[FenceTk(<<"a", "\n">>) EXCEPT !.type = "code_block"]>> \o Para(A)}

\* streams that are not well nested: a well-nested stream cut short, a
\* close token with no open, a row outside any table
Truncated ==
    LET seeds == {TableStream(2, << 1 >>), TableStream(0, << 2 >>),
                  ListOf("bullet", Item(A, ListOf("ordered", Item(A, <<>>)))),
                  Quote(Para(A) \o Quote(Para(A)))}
    IN  UNION {{SubSeq(t, 1, n) : n \in 1..Len(t) - 1} : t \in seeds}

Unbalanced ==
    {<<Tk("bullet_list_close")>> \o Para(A),
     <<Tk("tr_open"), Tk("td_open")>>,
     <<Tk("bullet_list_open"), Tk("list_item_open"), Tk("blockquote_close")>>,
     <<Tk("thead_open"), Tk("tr_open"), Tk("th_open"), Tk("tr_close"), Tk("thead_close")>>}

Streams ==
    TextStreams \cup ListStreams \cup QuoteStreams \cup TableStreams
    \cup CodeStreams \cup Truncated \cup Unbalanced

\* the ids an image of the stream names
ImageIds == {<<"i", "m", "g", "i", "d">>}

HasImage(ts) == \E k \in 1..Len(ts) : Contains(ts[k].content, <<"!", "[">>)

-----------------------------------------------------------------------------
(* The specification.                                                      *)

Init ==
    /\ tokens \in Streams
    /\ images_map \in (IF HasImage(tokens) THEN SUBSET ImageIds ELSE {{}})
    /\ i = 0
    /\ list_stack = <<>>
    /\ in_table = FALSE
    /\ table = 0
    /\ doc = <<>>
    /\ pc = "loop"
    /\ jobs = <<>>
    /\ parts = <<>>
    /\ target = NoTarget
    /\ raising = FALSE
    /\ frame = NoFrame
    /\ figs = <<>>

Next ==
    \/ HeadingOpen
    \/ ParagraphPageBreak
    \/ ParagraphOpen
    \/ BlockquoteOpen
    \/ ListOpen
    \/ ListClose
    \/ ListItemOpen
    \/ CodeBlock
    \/ Hr
    \/ TableOpen
    \/ TheadOpen
    \/ TheadOpenRaise
    \/ TbodyOpen
    \/ TrOpen
    \/ TrOpenRaise
    \/ TbodyClose
    \/ TableClose
    \/ DefaultAdvance
    \/ Return
    \/ InlineStart
    \/ InlineText
    \/ InlineMath
    \/ InlineDone
    \/ MathParse
    \/ MathOmml
    \/ MathAttach
    \/ MathFigure
    \/ MathDraw
    \/ MathSave
    \/ MathClose
    \/ MathAddRun
    \/ MathPicture
    \/ MathPlain
    \/ MathReturn

Spec == Init /\ [][Next]_vars

-----------------------------------------------------------------------------
(* Concurrent conversions.  Requests served by threads of one process (the *)
(* threaded server of app.run, a threaded gunicorn worker) each run        *)
(* make_docx on a Document of their own, but import the one pyplot module: *)
(* its table of open figures and its current figure belong to the process. *)
(* Each conversion below is inside latex_to_omml_or_image, its first try   *)
(* having failed, and takes the steps of the image fallback one call at a  *)
(* time; the steps of different conversions interleave freely.  Here pc,   *)
(* frame and doc hold one value per conversion, and figs is shared.        *)

NumConversions == 2

Conversions == 1..NumConversions

\* the math sources (delimiters stripped) the conversions rasterize
MathSources == {<<"x">>, <<"y">>}

\* the paragraph every conversion writes to, the first of its own document
OwnParagraph == <<1, 0, 0>>

FallbackStep(c, npc, ndoc, nframe, nfigs) ==
    /\ pc' = [pc EXCEPT ![c] = npc]
    /\ doc' = [doc EXCEPT ![c] = ndoc]
    /\ frame' = [frame EXCEPT ![c] = nframe]
    /\ figs' = nfigs
    /\ UNCHANGED <<tokens, images_map, i, list_stack, in_table, table, jobs, parts,
                   target, raising>>

\* `except Exception` of the second try, in conversion c
FallbackFailed(c) ==
    FallbackStep(c, "m_plain", doc[c], [frame[c] EXCEPT !.tier2 = "failed"], figs)

\* fig = plt.figure()
FallbackFigure(c) ==
    /\ pc[c] = "m_figure"
    /\ \/ FallbackStep(c, "m_draw", doc[c], [frame[c] EXCEPT !.fig = NextFigNum],
                       Append(figs, [num |-> NextFigNum, text |-> <<>>]))
       \/ FallbackFailed(c)

\* ax = fig.add_subplot(111); ax.axis("off"); ax.text(0.5, 0.5, render_tex)
FallbackDraw(c) ==
    /\ pc[c] = "m_draw"
    /\ \/ FallbackStep(c, "m_save", doc[c], frame[c],
                       [n \in 1..Len(figs) |->
                           IF figs[n].num = frame[c].fig
                           THEN [figs[n] EXCEPT !.text = RenderTex(frame[c].core)]
                           ELSE figs[n]])
       \/ FallbackFailed(c)

\* plt.savefig(buf): pyplot saves the process's current figure
FallbackSave(c) ==
    /\ pc[c] = "m_save"
    /\ \/ FallbackStep(c, "m_close", doc[c],
                       [frame[c] EXCEPT !.buf = figs[Len(figs)].text], figs)
       \/ FallbackFailed(c)

\* plt.close(fig)
FallbackClose(c) ==
    /\ pc[c] = "m_close"
    /\ \/ FallbackStep(c, "m_run", doc[c], frame[c],
                       SelectSeq(figs, LAMBDA f : f.num # frame[c].fig))
       \/ FallbackFailed(c)

\* run = paragraph.add_run()
FallbackAddRun(c) ==
    /\ pc[c] = "m_run"
    /\ FallbackStep(c, "m_picture", AddTo(doc[c], OwnParagraph, <<PictureRun(<<>>)>>),
                    frame[c], figs)

\* run.add_picture(buf, width=Inches(5.5))
FallbackPicture(c) ==
    /\ pc[c] = "m_picture"
    /\ \/ FallbackStep(c, "m_return",
                       WithLast(doc[c], OwnParagraph, PictureRun(frame[c].buf)),
                       [frame[c] EXCEPT !.tier2 = "ok"], figs)
       \/ FallbackFailed(c)

\* paragraph.add_run(core)
FallbackPlain(c) ==
    /\ pc[c] = "m_plain"
    /\ FallbackStep(c, "m_return",
                    AddTo(doc[c], OwnParagraph, <<Run(frame[c].core, "plain")>>),
                    frame[c], figs)

InitConcurrent ==
    /\ tokens = <<>>
    /\ images_map = {}
    /\ i = 0
    /\ list_stack = <<>>
    /\ in_table = FALSE
    /\ table = 0
    /\ jobs = <<>>
    /\ parts = <<>>
    /\ target = OwnParagraph
    /\ raising = FALSE
    /\ doc = [c \in Conversions |-> <<Paragraph("Normal", 0, <<>>, 0)>>]
    /\ pc = [c \in Conversions |-> "m_figure"]
    /\ \E cores \in [Conversions -> MathSources] :
          frame = [c \in Conversions |->
                      [NoFrame EXCEPT !.core = cores[c], !.tier1 = "failed"]]
    /\ figs = <<>>

NextConcurrent ==
    \E c \in Conversions :
        \/ FallbackFigure(c)
        \/ FallbackDraw(c)
        \/ FallbackSave(c)
        \/ FallbackClose(c)
        \/ FallbackAddRun(c)
        \/ FallbackPicture(c)
        \/ FallbackPlain(c)

SpecConcurrent == InitConcurrent /\ [][NextConcurrent]_vars

-----------------------------------------------------------------------------
(* What the claims speak of: the nesting of the token stream itself.       *)

Pairs ==
    {<<"heading_open", "heading_close">>, <<"paragraph_open", "paragraph_close">>,
     <<"blockquote_open", "blockquote_close">>,
     <<"bullet_list_open", "bullet_list_close">>,
     <<"ordered_list_open", "ordered_list_close">>,
     <<"list_item_open", "list_item_close">>, <<"table_open", "table_close">>,
     <<"thead_open", "thead_close">>, <<"tbody_open", "tbody_close">>,
     <<"tr_open", "tr_close">>, <<"th_open", "th_close">>, <<"td_open", "td_close">>}

Opens == {pr[1] : pr \in Pairs}

Closes == {pr[2] : pr \in Pairs}

\* the open tokens not yet closed before the 0-based position k, innermost
\* last; <<"unbalanced">> once a close token does not match
RECURSIVE OpenAt(_, _)
OpenAt(ts, k) ==
    IF k = 0 THEN <<>>
    ELSE LET st == OpenAt(ts, k - 1)
             t == ts[k].type
         IN  IF st = <<"unbalanced">> THEN st
             ELSE IF t \in Opens THEN Append(st, t)
             ELSE IF t \in Closes
                  THEN IF st # <<>> /\ <<st[Len(st)], t>> \in Pairs
                       THEN SubSeq(st, 1, Len(st) - 1) ELSE <<"unbalanced">>
             ELSE st

WellNested(ts) == OpenAt(ts, Len(ts)) = <<>>

\* the kinds of the lists that enclose position k, innermost last
EnclosingLists(ts, k) ==
    LET opens == SelectSeq(OpenAt(ts, k),
                           LAMBDA t : t \in {"bullet_list_open", "ordered_list_open"})
    IN  [n \in 1..Len(opens) |->
            IF opens[n] = "bullet_list_open" THEN "bullet" ELSE "ordered"]

QuoteDepth(ts, k) ==
    Len(SelectSeq(OpenAt(ts, k), LAMBDA t : t = "blockquote_open"))

NestDepth(ts, k) == Len(OpenAt(ts, k))

\* the blocks the token at position k was rendered into, in document order
BlocksFrom(k) == SelectSeq(doc, LAMBDA b : b.src = k)

\* the text of a paragraph content: the texts of its elements, in order
TextOf(els) == Concat([n \in 1..Len(els) |-> els[n].text])

IsPageBreakBlock(b) == \E n \in 1..Len(b.runs) : b.runs[n].style = "page_break"

MathStages ==
    {"m_parse", "m_omml", "m_attach", "m_figure", "m_draw", "m_save", "m_close",
     "m_run", "m_picture", "m_plain", "m_return"}

ImageStages == {"m_figure", "m_draw", "m_save", "m_close", "m_run", "m_picture"}

-----------------------------------------------------------------------------
(* C1: render_tokens_to_docx runs to completion on every finite token      *)
(* stream, malformed ones included: it never raises, so tokens[i] is never *)
(* read with i >= len(tokens).                                             *)
C1_NeverRaises == pc # "error"

-----------------------------------------------------------------------------
\* what the running latex_to_omml_or_image call has added to its paragraph
Gained == SubSeq(ContentOf(doc, target), frame.base + 1, Len(ContentOf(doc, target)))

(* C2: whatever the stages of latex_to_omml_or_image do, the call returns  *)
(* and the paragraph has gained one representation of the expression: the  *)
(* native markup if the first tier succeeded, else the picture rendered    *)
(* from the source if rasterization succeeded, else the source as text     *)
(* (after the empty run a failed add_picture leaves behind).  The text     *)
(* tier is entered only after both tiers failed, the image tier only after *)
(* the first failed, and no error state is entered from within the call.   *)
C2_OneRepresentation ==
    /\ pc = "m_return" =>
         /\ frame.tier1 \in {"ok", "failed"}
         /\ frame.tier1 = "ok" =>
              /\ frame.tier2 = "none"
              /\ Len(Gained) = 1 /\ Gained[1].kind = "omml" /\ Gained[1].text = frame.core
         /\ frame.tier1 = "failed" => frame.tier2 \in {"ok", "failed"}
         /\ frame.tier1 = "failed" /\ frame.tier2 = "ok" =>
              Gained = <<PictureRun(RenderTex(frame.core))>>
         /\ frame.tier1 = "failed" /\ frame.tier2 = "failed" =>
              \/ Gained = <<Run(frame.core, "plain")>>
              \/ Gained = <<PictureRun(<<>>), Run(frame.core, "plain")>>
    /\ pc \in ImageStages => frame.tier1 = "failed" /\ frame.tier2 = "none"
    /\ pc = "m_plain" => frame.tier1 = "failed" /\ frame.tier2 = "failed"
    /\ pc \in MathStages \ {"m_return"} =>
         \A n \in 1..Len(Gained) : Gained[n] = PictureRun(<<>>)
    /\ pc = "error" => frame = NoFrame

\* a call that returns with the source as text, both tiers having failed,
\* the second at add_picture
C2_Witness ==
    /\ pc = "m_return"
    /\ frame.tier1 = "failed" /\ frame.tier2 = "failed"
    /\ frame.core # <<>>
    /\ Gained = <<PictureRun(<<>>), Run(frame.core, "plain")>>

-----------------------------------------------------------------------------
(* C3: on a well-nested stream list_stack is empty when the last token has *)
(* been consumed, and whenever the cursor is at a top-level token.         *)
C3_ListStackEmpty ==
    WellNested(tokens) =>
        /\ pc = "done" => list_stack = <<>>
        /\ (pc = "loop" /\ i < Len(tokens) /\ NestDepth(tokens, i) = 0) =>
              list_stack = <<>>

\* the end of a stream with lists nested three deep, bullet and ordered,
\* whose innermost item was rendered with three lists on the stack
C3_Witness ==
    /\ pc = "done"
    /\ WellNested(tokens)
    /\ list_stack = <<>>
    /\ \E k \in 1..Len(tokens) :
          /\ Len(EnclosingLists(tokens, k)) = 3
          /\ \E m, n \in 1..3 :
                /\ EnclosingLists(tokens, k)[m] = "bullet"
                /\ EnclosingLists(tokens, k)[n] = "ordered"
    /\ \E b \in 1..Len(doc) :
          doc[b].style \in {"List Bullet", "List Number"} /\ doc[b].indent = 2 * Unit

-----------------------------------------------------------------------------
(* C4: on a well-nested stream, at every list_item_open the stack length   *)
(* is the number of lists that enclose the item, and the item is emitted   *)
(* in the style of its innermost list with an indent of (depth - 1) units. *)
C4_ItemDepthAndStyle ==
    WellNested(tokens) =>
        /\ (pc = "loop" /\ i < Len(tokens) /\ TypeAt(i) = "list_item_open") =>
              Len(list_stack) = Len(EnclosingLists(tokens, i))
        /\ \A b \in 1..Len(doc) :
              TypeAt(doc[b].src) = "list_item_open" =>
                  LET encl == EnclosingLists(tokens, doc[b].src)
                  IN  /\ encl # <<>>
                      /\ doc[b].style = IF encl[Len(encl)] = "ordered"
                                        THEN "List Number" ELSE "List Bullet"
                      /\ doc[b].indent = Unit * (Len(encl) - 1)

-----------------------------------------------------------------------------
\* the cell texts of the rows of the stream, row by row
RECURSIVE TokenRows(_, _)
TokenRows(ts, k) ==
    IF k = 0 THEN <<>>
    ELSE LET rows == TokenRows(ts, k - 1)
             t == ts[k].type
         IN  IF t = "tr_open" THEN Append(rows, <<>>)
             ELSE IF t \in {"th_open", "td_open"} /\ rows # <<>>
                  THEN [rows EXCEPT ![Len(rows)] =
                           Append(@, IF k < Len(ts) /\ ts[k + 1].type = "inline"
                                     THEN ts[k + 1].content ELSE <<>>)]
             ELSE rows

TablesOf(d) == SelectSeq(d, LAMBDA b : b.kind = "table")

OneTable(ts) ==
    /\ WellNested(ts)
    /\ Cardinality({k \in 1..Len(ts) : ts[k].type = "table_open"}) = 1
    /\ TokenRows(ts, Len(ts)) # <<>>

(* C5: the emitted table has as many columns as its widest row, header or  *)
(* body; every row is emitted with that many cells, short rows padded on   *)
(* the right with empty cells, no cell content dropped, and no error.      *)
C5_TableWidth ==
    OneTable(tokens) =>
        /\ pc # "error"
        /\ pc = "done" =>
             LET rows == TokenRows(tokens, Len(tokens))
                 tbls == TablesOf(doc)
             IN  /\ Len(tbls) = 1
                 /\ tbls[1].cols = MaxLen(rows)
                 /\ Len(tbls[1].rows) = Len(rows)
                 /\ \A r \in 1..Len(rows) :
                       /\ Len(tbls[1].rows[r]) = MaxLen(rows)
                       /\ \A c \in 1..MaxLen(rows) :
                             TextOf(tbls[1].rows[r][c]) =
                                 IF c <= Len(rows[r]) THEN rows[r][c] ELSE <<>>

-----------------------------------------------------------------------------
TextBefore == <<"b", "e", "f", "o", "r", "e">>

TextAfter == <<"a", "f", "t", "e", "r">>

(* C6: `before ![x](imgid) after` in a paragraph gives, when imgid is in   *)
(* the image map, the paragraph "before", an image block, and the          *)
(* paragraph "after"; when it is not, the single paragraph                 *)
(* "before  after", with no image block and no text in the image's place.  *)
C6_InlineImage ==
    (tokens = Para(SampleImage) /\ pc = "done") =>
        IF <<"i", "m", "g", "i", "d">> \in images_map
        THEN /\ Len(doc) = 3
             /\ Strip(TextOf(doc[1].runs)) = TextBefore
             /\ doc[2].kind = "image"
             /\ Strip(TextOf(doc[3].runs)) = TextAfter
        ELSE /\ Len(doc) = 1
             /\ TextOf(doc[1].runs) = TextBefore \o <<" ", " ">> \o TextAfter

-----------------------------------------------------------------------------
IsEscaped(s, p) == s[p] = "$" /\ p > 1 /\ s[p - 1] = "\\"

Unescaped(s) == {p \in 1..Len(s) : s[p] = "$" /\ ~IsEscaped(s, p)}

\* s without the backslash of each escaped `$`
RECURSIVE Unescape(_)
Unescape(s) ==
    IF s = <<>> THEN <<>>
    ELSE IF Len(s) >= 2 /\ s[1] = "\\" /\ s[2] = "$"
         THEN <<"$">> \o Unescape(SubSeq(s, 3, Len(s)))
    ELSE <<s[1]>> \o Unescape(Tail(s))

(* C7: a `$` that a backslash immediately precedes neither opens nor       *)
(* closes a math span: a paragraph text whose `$` are all escaped, but for *)
(* at most one, makes no call to the math transcoder, and the text comes   *)
(* out literally, each escaped `$` as `$`.                                 *)
C7_EscapedDollar ==
    \A c \in {SampleEscaped, SampleUnterminated} \cup ShortTexts :
        (tokens = Para(c) /\ Cardinality(Unescaped(c)) <= 1) =>
            /\ pc \notin MathStages
            /\ pc = "done" => Len(doc) = 1 /\ TextOf(doc[1].runs) = Unescape(c)

-----------------------------------------------------------------------------
(* C8: a top-level paragraph_open followed by an inline token gives one    *)
(* page-break block and no paragraph exactly when the trimmed content      *)
(* equals the marker, and otherwise one paragraph and no page break.       *)
C8_PageBreak ==
    (WellNested(tokens) /\ pc = "done") =>
        \A k \in 0..Len(tokens) - 2 :
            (TypeAt(k) = "paragraph_open" /\ TypeAt(k + 1) = "inline"
             /\ NestDepth(tokens, k) = 0) =>
                /\ Len(BlocksFrom(k)) = 1
                /\ IsPageBreakBlock(BlocksFrom(k)[1])
                     <=> Strip(Tok(k + 1).content) = NEW_PAGE_MARKER

-----------------------------------------------------------------------------
\* the paragraphs emitted for a paragraph_open token
QuotedParagraphs ==
    {b \in 1..Len(doc) : doc[b].kind = "p" /\ TypeAt(doc[b].src) = "paragraph_open"}

(* C9: on a well-nested stream a paragraph is emitted with a left margin   *)
(* set by the number of blockquotes open around it: none outside any       *)
(* blockquote (so also after the matching close), and a deeper one the     *)
(* more blockquotes enclose it.                                            *)
C9_QuoteIndent ==
    (WellNested(tokens) /\ pc = "done") =>
        \A a \in QuotedParagraphs :
            /\ doc[a].indent = 0 <=> QuoteDepth(tokens, doc[a].src) = 0
            /\ \A b \in QuotedParagraphs :
                  QuoteDepth(tokens, doc[a].src) < QuoteDepth(tokens, doc[b].src)
                      => doc[a].indent < doc[b].indent

-----------------------------------------------------------------------------
(* C10: a fence or code_block token whose content has n lines is emitted   *)
(* as exactly n code-style blocks, one per line in order, each holding     *)
(* that line's text, and no further code block.                            *)
C10_CodeLines ==
    pc = "done" =>
        \A k \in 0..Len(tokens) - 1 :
            TypeAt(k) \in {"fence", "code_block"} =>
                LET lines == SplitLines(Tok(k).content)
                    blocks == BlocksFrom(k)
                IN  /\ Len(blocks) = Len(lines)
                    /\ \A n \in 1..Len(blocks) :
                          /\ blocks[n].style = "Code"
                          /\ blocks[n].runs = <<Run(lines[n], "code")>>

-----------------------------------------------------------------------------
(* C11: when two conversions run their image fallbacks concurrently, under *)
(* every interleaving of their steps the picture a conversion inserts is   *)
(* the rendering of its own math source, never the content of a figure of  *)
(* the other conversion, and what a conversion saves is its own figure.    *)
C11_OwnFigure ==
    \A c \in Conversions :
        /\ pc[c] \in {"m_close", "m_run", "m_picture"} =>
              frame[c].buf = RenderTex(frame[c].core)
        /\ (pc[c] = "m_return" /\ frame[c].tier2 = "ok") =>
              ContentOf(doc[c], OwnParagraph) = <<PictureRun(RenderTex(frame[c].core))>>

-----------------------------------------------------------------------------
\* the main loop is about to dispatch tokens[i]
Iteration == pc = "loop" /\ i < Len(tokens)

\* the inline tokens with content at the positions a..b-1 of the stream
InlineBetween(a, b) ==
    {k \in a..(b - 1) : k < Len(tokens) /\ TypeAt(k) = "inline" /\ Tok(k).content # <<>>}

\* the pending _render_inline calls that have content to render
WithContent(js) == {n \in 1..Len(js) : js[n].content # <<>>}

\* how far a position of the call is from the end of its iteration: the
\* transcoder's stages in the order they run, then _render_inline, then
\* the loop test, then the exit
StageRank ==
    [error |-> 0, done |-> 0, loop |-> 1, inline |-> 2, m_return |-> 3,
     m_plain |-> 4, m_picture |-> 5, m_run |-> 6, m_close |-> 7, m_save |-> 8,
     m_draw |-> 9, m_figure |-> 10, m_attach |-> 11, m_omml |-> 12, m_parse |-> 13]

\* what is left of the call: the tokens after the cursor, whether the
\* iteration may still complete, the pending _render_inline calls, the
\* parts of the running one, and the position within it
Remaining(ts, k, r, js, ps, st) ==
    <<Max(Len(ts) - k, 0), IF r THEN 0 ELSE 1, Len(js), Len(ps), StageRank[st]>>

\* lexicographic order on tuples of naturals of one length
LexLess(u, v) ==
    \E n \in 1..Len(u) : u[n] < v[n] /\ \A m \in 1..(n - 1) : u[m] = v[m]

(* C12: render_tokens_to_docx is one forward pass.  The cursor i never     *)
(* decreases; every iteration of the main loop that does not raise moves   *)
(* it forward, past the tokens it consumed, and renders each inline token  *)
(* among them at most once; the cursor moves in no other step; and every   *)
(* step leaves less of the call to do, so the call ends.  Since an         *)
(* iteration needs i < len(tokens) and i starts at 0, there are at most    *)
(* len(tokens) iterations and no position is dispatched twice.             *)
C12_ForwardPass ==
    [][ /\ i' >= i
        /\ (Iteration /\ pc' # "error" /\ ~raising') =>
              /\ i' > i
              /\ Cardinality(WithContent(jobs')) <= Cardinality(InlineBetween(i, i'))
        /\ ~Iteration =>
              /\ i' = i
              /\ jobs' = jobs \/ (jobs # <<>> /\ jobs' = Tail(jobs))
        /\ LexLess(Remaining(tokens', i', raising', jobs', parts', pc'),
                   Remaining(tokens, i, raising, jobs, parts, pc)) ]_vars

\* the pass has returned from a well-nested stream of ten tokens or more
\* whose blocks come from three different iterations at least
C12_Witness ==
    /\ pc = "done"
    /\ WellNested(tokens)
    /\ Len(tokens) >= 10
    /\ i >= Len(tokens)
    /\ Cardinality({doc[b].src : b \in 1..Len(doc)}) >= 3

====
